---- MODULE Spec2Model ----
(***************************************************************************)
(* Sample construction of the inpainting dataset (src/src/dataset.py):    *)
(* Dataset.__getitem__, load_item, load_mask, load_edge and               *)
(* create_iterator.  Pixel buffers are small H x W grids of 0..255 with    *)
(* their numpy dtype and rank; the colour content of images is abstracted *)
(* to their shape, rank and dtype.                                        *)
(***************************************************************************)
EXTENDS Integers, Naturals, Sequences, FiniteSets, TLC

\* ------------------------------------------------------------------ bounds
MaxN == 2
MaxM == 2
MaxH == 2
MaxW == 3
MaxB == 3
MaxIterN == 4
MaxYields == 5

\* ------------------------------------------------------- python helpers
\* None, where the code passes no buffer: the empty buffer.
None == [dtype |-> "none", ndim |-> 0, h |-> 0, w |-> 0, px |-> [p \in {} |-> 0]]

Min(a, b) == IF a < b THEN a ELSE b

\* data[i] for a non-negative i on a list of length n raises unless i < n.
InRange(i, n) == i >= 0 /\ i < n

\* A pixel buffer: shape (h, w) and a value for every (row, column), 0-based.
Pixels(h, w) == (0 .. h - 1) \X (0 .. w - 1)

\* Buffers are 2-D uint8 arrays (what imread returns for a grey file) unless
\* converted.  A buffer of rank 3 holds the same value in its three channels.
Buffer(h, w, px) == [dtype |-> "uint8", ndim |-> 2, h |-> h, w |-> w, px |-> px]

\* ndarray.astype(dtype), and the dtype a numpy operation gives its result.
AsType(buf, dtype) == [buf EXCEPT !.dtype = dtype]

\* An operation that keeps the dtype and the rank of its input.
Like(buf, src) == [buf EXCEPT !.dtype = src.dtype, !.ndim = src.ndim]

\* ------------------------------------------------- files (the environment)
\* imread of an image path: a decode failure, or a buffer of rank 2 (grey)
\* or 3 (colour) and some height and width.
BadFile == [ok |-> FALSE, ndim |-> 0, h |-> 0, w |-> 0]

ImageFiles ==
    {BadFile} \cup
    [ok : {TRUE}, ndim : {2, 3}, h : {MaxH}, w : 1 .. MaxW]

\* The skimage releases the code may run on, by what lines 77, 116, 126 and
\* 164 meet in them.  rgb2gray returns a 2-D array unchanged before 0.19 and
\* takes the last axis of any array for the colour channels from 0.19 on.
\* canny smooths with scipy's gaussian_filter, which skips a non-positive
\* sigma, before 0.15 and with skimage's gaussian, which rejects a negative
\* sigma, from 0.15 on.
SkimageReleases == {"pre-0.15", "0.15-0.18", "0.19+"}

Gray2DUnchanged(release) == release # "0.19+"

NegativeSigmaRejected(release) == release # "pre-0.15"

\* The numpy releases the code may run on: the aliases np.bool (line 104)
\* and np.float (lines 110, 116) exist before 1.24; both are removed in 1.24
\* to 1.26; from 2.0 on np.bool exists again and np.float does not.  Reading
\* a removed alias raises AttributeError.
NumpyReleases == {"pre-1.24", "1.24-1.26", "2.0+"}

HasNpBool(release) == release # "1.24-1.26"

HasNpFloat(release) == release = "pre-1.24"

\* The Pillow releases the code may run on: Image.fromarray turns a 1-D array
\* into an image one pixel wide, or raises on it.
PillowReleases == {"1-D", "no 1-D"}

\* The builds explored.  Pillow's handling of a 1-D array shows only where
\* skimage produces one, from 0.19 on; the earlier releases are paired with
\* one Pillow.  numpy 2 loads only the skimage releases built for it, all of
\* them later than 0.19.
Builds ==
    {b \in [skimage : SkimageReleases, pillow : PillowReleases, numpy : NumpyReleases] :
       b.skimage # "0.19+" => (b.pillow = "1-D" /\ b.numpy # "2.0+")}

\* Contents of the mask files, by position in the mask file list: 2-D grey
\* bitmaps.  File 0 is a clean bitmap, file 1 holds a faint positive value.
MaskFile(id) ==
    IF id = 0
    THEN Buffer(2, 2, [r \in 0 .. 1, c \in 0 .. 1 |-> IF c = 0 THEN 255 ELSE 0])
    ELSE Buffer(2, 2, [r \in 0 .. 1, c \in 0 .. 1 |->
                         IF r = 0 /\ c = 1 THEN 1 ELSE IF r = 1 THEN 255 ELSE 0])

\* Contents of the external edge files, by position in the edge file list.
EdgeFile(id) ==
    IF id = 0
    THEN Buffer(2, 2, [r \in 0 .. 1, c \in 0 .. 1 |-> IF r = c THEN 255 ELSE 0])
    ELSE Buffer(2, 2, [r \in 0 .. 1, c \in 0 .. 1 |-> 0])

\* ------------------------------------------- primitives outside src/
\* utils.resize(img, height, width, centerCrop): an optional centred square
\* crop, then resampling to (height, width), in the dtype and rank of its
\* input.  The resampler is not part of the sources; it is one fixed
\* function, either a nearest-neighbour pick or a smoothing interpolation
\* that mixes a pixel with its right neighbour.
Kernels == {"nearest", "smooth"}

CenterCrop(buf, centerCrop) ==
    IF centerCrop /\ buf.h # buf.w
    THEN LET side == Min(buf.h, buf.w)
             j == (buf.h - side) \div 2
             i == (buf.w - side) \div 2
         IN  Like(Buffer(side, side,
                         [r \in 0 .. side - 1, c \in 0 .. side - 1 |->
                            buf.px[<<r + j, c + i>>]]),
                  buf)
    ELSE buf

resize(img, height, width, centerCrop, kernel) ==
    LET src == CenterCrop(img, centerCrop)
        sr(r) == (r * src.h) \div height
        sc(c) == (c * src.w) \div width
        right(c) == Min(sc(c) + 1, src.w - 1)
    IN  Like(Buffer(height, width,
                    [r \in 0 .. height - 1, c \in 0 .. width - 1 |->
                      IF kernel = "nearest"
                      THEN src.px[<<sr(r), sc(c)>>]
                      ELSE (src.px[<<sr(r), sc(c)>>] + src.px[<<sr(r), right(c)>>])
                           \div 2]),
             src)

\* utils.create_mask(width, height, mask_width, mask_height, x, y): a
\* rectangle of 255 at offset (x, y) on an 8-bit canvas of 0.
create_mask(width, height, mask_width, mask_height, x, y) ==
    Buffer(height, width,
           [r \in 0 .. height - 1, c \in 0 .. width - 1 |->
             IF y <= r /\ r < y + mask_height /\ x <= c /\ c < x + mask_width
             THEN 255 ELSE 0])

\* mask_generator.generate_random_mask(params, imgh, imgw): the union of
\* random blocks; here one block of k columns and the top row.
generate_random_mask(k, imgh, imgw) ==
    Buffer(imgh, imgw,
           [r \in 0 .. imgh - 1, c \in 0 .. imgw - 1 |-> IF c < k \/ r = 0 THEN 255 ELSE 0])

\* skimage.feature.canny(img, sigma, mask): a boolean edge indicator that is
\* false wherever the visibility mask is false.  "all" marks every visible
\* pixel, "none" marks nothing.  The detector raises for an image or a mask
\* that is not 2-D and, from release 0.15 on, for a negative sigma.
CannyPatterns == {"none", "all"}

canny(g, sigma, vis, pat, release) ==
    IF \/ g.ndim # 2
       \/ vis # None /\ vis.ndim # 2
       \/ sigma < 0 /\ NegativeSigmaRejected(release)
    THEN [err |-> TRUE, out |-> None]
    ELSE [err |-> FALSE,
          out |-> AsType(Buffer(g.h, g.w,
                                [r \in 0 .. g.h - 1, c \in 0 .. g.w - 1 |->
                                  IF pat = "all" /\ (vis = None \/ vis.px[<<r, c>>])
                                  THEN 1 ELSE 0]),
                         "bool")]

\* --------------------------------------------------------- the Dataset
VARIABLES skimage, pillow, numpy, resampler, self, pc, phase, index, cur, attempts, file, ori_img, img,
          img_gray, mask, mask_type, mask_index, edge, canny_calls, item,
          batch_size, it_pc, pos, batch, yields

sample_vars == <<skimage, pillow, numpy, resampler, self, pc, phase, index, cur, attempts, file, ori_img,
                 img, img_gray, mask, mask_type, mask_index, edge, canny_calls, item>>

iter_vars == <<batch_size, it_pc, pos, batch, yields>>

vars == <<sample_vars, iter_vars>>

Modes == {1, 2, 3}
Sizes == {0, MaxH}
Sigmas == {-1, 0, 2}
EdgeModes == {1, 2}
NmsModes == {0, 1}
MaskModes == 1 .. 6

\* What load_mask reads: the run mode, the mask policy, the target size and
\* the number of mask files (none, one, or the most).
MaskSettings ==
    [MODE : Modes, MASK : MaskModes, INPUT_SIZE : Sizes, masks : {0, 1, MaxM}]

\* What load_edge reads: the training flag, sigma, the edge policy and, for
\* external edges, the suppression flag and the number of edge files.
EdgeSettings ==
    {e \in [training : BOOLEAN, SIGMA : Sigmas, EDGE : EdgeModes, NMS : NmsModes,
            edges : {0, MaxN}] :
       /\ e.EDGE = 1 => (e.NMS = 0 /\ e.edges = 0)
       /\ e.edges = 0 => e.NMS = 0}

DefaultEdge == [training |-> TRUE, SIGMA |-> 2, EDGE |-> 1, NMS |-> 0, edges |-> 0]

\* The constructions explored: every mask setting under the default edge
\* setting, and every edge setting under the external mask policy with a
\* full mask list.
Setups ==
    (MaskSettings \X {DefaultEdge}) \cup
    ({m \in MaskSettings : m.MASK = 3 /\ m.masks = MaxM} \X EdgeSettings)

Config(su) ==
    [MODE |-> su[1].MODE, INPUT_SIZE |-> su[1].INPUT_SIZE, SIGMA |-> su[2].SIGMA,
     EDGE |-> su[2].EDGE, MASK |-> su[1].MASK, NMS |-> su[2].NMS]

\* A file list of n paths, each path named by its position.
Flist(n) == [i \in 1 .. n |-> i - 1]

\* Dataset.__init__ without the test-mode override of the mask policy.
DatasetKeepsMask(config, flist, edge_flist, mask_flist, augment, training) ==
    [mode |-> config.MODE,
     augment |-> augment,
     training |-> training,
     data |-> flist,
     edge_data |-> edge_flist,
     mask_data |-> mask_flist,
     input_size |-> config.INPUT_SIZE,
     sigma |-> config.SIGMA,
     edge |-> config.EDGE,
     mask |-> config.MASK,
     nms |-> config.NMS,
     is_center_crop |-> (config.MODE = 1)]

\* Dataset.__init__
Dataset(config, flist, edge_flist, mask_flist, augment, training) ==
    [mode |-> config.MODE,
     augment |-> augment,
     training |-> training,
     data |-> flist,
     edge_data |-> edge_flist,
     mask_data |-> mask_flist,
     input_size |-> config.INPUT_SIZE,
     sigma |-> config.SIGMA,
     edge |-> config.EDGE,
     mask |-> IF config.MODE = 2 THEN 6 ELSE config.MASK,
     nms |-> config.NMS,
     is_center_crop |-> (config.MODE = 1)]

\* Dataset.__len__
len(s) == Len(s.data)

NoImg == [dtype |-> "none", ndim |-> 0, h |-> 0, w |-> 0]
NoTensor == [err |-> FALSE, c |-> 0, h |-> 0, w |-> 0, px |-> None.px]
NoImgTensor == [err |-> FALSE, c |-> 0, h |-> 0, w |-> 0]
NoItem ==
    [shape |-> <<>>, img |-> NoImgTensor, img_gray |-> NoImgTensor,
     edge |-> NoTensor, mask |-> NoTensor]

Locals ==
    /\ file = BadFile
    /\ ori_img = NoImg
    /\ img = NoImg
    /\ img_gray = NoImg
    /\ mask = None
    /\ mask_type = 0
    /\ mask_index = -1
    /\ edge = None
    /\ canny_calls = <<>>

\* No request in progress.
Idle ==
    /\ pc = "idle"
    /\ phase = "none"
    /\ index = 0
    /\ cur = 0
    /\ attempts = <<>>
    /\ item = NoItem
    /\ Locals

Init ==
    /\ \E su \in Setups, augment \in BOOLEAN :
          self = Dataset(Config(su), Flist(MaxN), Flist(su[2].edges),
                         Flist(su[1].masks), augment, su[2].training)
    /\ resampler \in Kernels
    /\ \E b \in Builds :
         /\ skimage = b.skimage
         /\ pillow = b.pillow
         /\ numpy = b.numpy
    /\ Idle
    /\ batch_size = 1
    /\ it_pc = "none"
    /\ pos = 0
    /\ batch = <<>>
    /\ yields = 0

\* ------------------------------------------------------------ load_mask
\* (mask > 0).astype(np.uint8) * 255: uint8, of the shape of its input.
threshold(m) ==
    [Buffer(m.h, m.w,
            [p \in DOMAIN m.px |-> IF m.px[p] > 0 THEN 255 ELSE 0])
       EXCEPT !.ndim = m.ndim]

GrayOut(err, out) == [err |-> err, out |-> out]

\* The luminance 0.2125 R + 0.7154 G + 0.0721 B of a colour pixel, of bytes
\* the library first divides by 255.  The float result is kept exactly, in
\* units of 1/2550000; line 165 reads its sign.
Luminance(r, g, b) == 2125 * r + 7154 * g + 721 * b

\* skimage.color.rgb2gray(mask) of line 164.  A 3-channel buffer gives the
\* 2-D float buffer of its luminance.  A 2-D buffer is returned unchanged
\* before release 0.19; from 0.19 on it raises ValueError, unless its last
\* axis is 3, when each row is read as one colour pixel and a 1-D float
\* array (kept as one column) results.
rgb2gray(m, release) ==
    IF m.ndim = 3
    THEN GrayOut(FALSE,
                 [dtype |-> "float64", ndim |-> 2, h |-> m.h, w |-> m.w,
                  px |-> [p \in DOMAIN m.px |-> Luminance(m.px[p], m.px[p], m.px[p])]])
    ELSE IF Gray2DUnchanged(release)
    THEN GrayOut(FALSE, m)
    ELSE IF m.ndim = 2 /\ m.w = 3
    THEN GrayOut(FALSE,
                 [dtype |-> "float64", ndim |-> 1, h |-> m.h, w |-> 1,
                  px |-> [p \in Pixels(m.h, 1) |->
                            Luminance(m.px[<<p[1], 0>>], m.px[<<p[1], 1>>],
                                      m.px[<<p[1], 2>>])]])
    ELSE GrayOut(TRUE, None)

\* The composite policies re-roll a base policy on every call.
RerollMaskType(mask_cfg) ==
    IF mask_cfg = 4 THEN {1, 3}
    ELSE IF mask_cfg = 5 THEN 1 .. 3
    ELSE {mask_cfg}

\* The right half placed flush with the right border.
HalfOffsetsFlush(imgw) == {0, imgw - imgw \div 2}

\* x offsets of the half mask: 0 if random.random() < 0.5 else imgw // 2
HalfOffsets(imgw) == {0, imgw \div 2}

\* random.randint(0, len(self.mask_data) - 1)
RandomMaskIndex(n) == 0 .. n - 1

\* index % len(self.mask_data)
FixedMaskIndex(idx, n) == idx % n

MaskOut(err, t, i, m) == [err |-> err, mask_type |-> t, mask_index |-> i, mask |-> m]

\* load_mask, mask_type == 1: the random block mask.
RandomBlock(imgh, imgw) ==
    {MaskOut(FALSE, 1, -1, generate_random_mask(b, imgh, imgw)) :
       b \in 1 .. Min(imgw, 2)}

\* load_mask, mask_type == 2: the left or the right half.
HalfPlane(imgh, imgw) ==
    {MaskOut(FALSE, 2, -1, create_mask(imgw, imgh, imgw \div 2, imgh, x, 0)) :
       x \in HalfOffsets(imgw)}

\* An external mask that falls back to a blank mask on an empty list.
ExternalFileOrBlank(s, imgh, imgw, k) ==
    IF Len(s.mask_data) = 0
    THEN {MaskOut(FALSE, 3, -1,
                  Buffer(imgh, imgw, [r \in 0 .. imgh - 1, c \in 0 .. imgw - 1 |-> 0]))}
    ELSE {MaskOut(FALSE, 3, i,
                  threshold(resize(MaskFile(s.mask_data[i + 1]), imgh, imgw,
                                   s.is_center_crop, k))) :
            i \in 0 .. Len(s.mask_data) - 1}

\* load_mask, mask_type == 3: a random mask file, resized and thresholded.
\* randint on the empty range of an empty list raises.
ExternalFile(s, imgh, imgw, k) ==
    IF RandomMaskIndex(Len(s.mask_data)) = {}
    THEN {MaskOut(TRUE, 3, -1, None)}
    ELSE {MaskOut(FALSE, 3, i,
                  threshold(resize(MaskFile(s.mask_data[i + 1]), imgh, imgw,
                                   s.is_center_crop, k))) :
            i \in RandomMaskIndex(Len(s.mask_data))}

\* load_mask, mask_type == 6: the mask file at index % len, resized without
\* crop, converted to grey and thresholded.  The modulus by the length of an
\* empty list raises, and so may rgb2gray.
ExternalFixedIndex(s, idx, imgh, imgw, k, release) ==
    IF Len(s.mask_data) = 0
    THEN {MaskOut(TRUE, 6, -1, None)}
    ELSE LET mask_index_ == FixedMaskIndex(idx, Len(s.mask_data))
             gray == rgb2gray(resize(MaskFile(s.mask_data[mask_index_ + 1]),
                                     imgh, imgw, FALSE, k), release)
         IN  {IF gray.err
              THEN MaskOut(TRUE, 6, mask_index_, None)
              ELSE MaskOut(FALSE, 6, mask_index_, threshold(gray.out))}

\* The outcomes of load_mask(img, index): a mask, or an exception (err).
load_mask(s, im, idx, k, release) ==
    LET imgh == im.h
        imgw == im.w
        Of(t) ==
          CASE t = 1 -> RandomBlock(imgh, imgw)
            [] t = 2 -> HalfPlane(imgh, imgw)
            [] t = 3 -> ExternalFile(s, imgh, imgw, k)
            [] t = 6 -> ExternalFixedIndex(s, idx, imgh, imgw, k, release)
    IN  UNION {Of(t) : t \in RerollMaskType(s.mask)}

\* ------------------------------------------------------------ load_edge
\* (1 - mask / 255).astype(np.bool): nonzero unless the pixel is 255.
Visibility(m) ==
    [dtype |-> "bool", ndim |-> m.ndim, h |-> m.h, w |-> m.w,
     px |-> [p \in Pixels(m.h, m.w) |-> 255 - m.px[p] # 0]]

\* The mask keyword chosen by the run mode instead of the training flag.
CannyMaskByMode(s, m) == IF s.mode = 1 THEN None ELSE Visibility(m)

\* The mask keyword handed to canny.
CannyMask(s, m) == IF s.training THEN None ELSE Visibility(m)

\* sigma = random.randint(1, 4) when sigma == 0
CannySigmas(sigma) == IF sigma = 0 THEN 1 .. 4 ELSE {sigma}

\* np.zeros(img.shape).astype(np.float)
Zeros(g) ==
    [dtype |-> "float64", ndim |-> g.ndim, h |-> g.h, w |-> g.w,
     px |-> [p \in Pixels(g.h, g.w) |-> 0]]

\* edge * canny(...): uint8 times bool stays uint8.
Times(a, b) ==
    Buffer(a.h, a.w,
           [r \in 0 .. a.h - 1, c \in 0 .. a.w - 1 |-> a.px[<<r, c>>] * b.px[<<r, c>>]])

EdgeOut(err, e, calls) == [err |-> err, edge |-> e, calls |-> calls]

\* One invocation of the detector inside load_edge, recorded with the sigma
\* and the mask it is given; it may raise.
CannyCall(g, sigma, vis, pat, release) ==
    [err |-> canny(g, sigma, vis, pat, release).err,
     out |-> canny(g, sigma, vis, pat, release).out,
     calls |-> <<[sigma |-> sigma, mask |-> vis]>>]

\* The canny branch of load_edge (self.edge == 1).  np.float is read after
\* np.zeros, and after the detector has returned.
CannyComputed(s, g, vis, release, np) ==
    IF s.sigma = -1
    THEN {IF HasNpFloat(np) THEN EdgeOut(FALSE, Zeros(g), <<>>)
          ELSE EdgeOut(TRUE, None, <<>>)}
    ELSE {LET c == CannyCall(g, sg, vis, pat, release)
          IN  IF c.err \/ ~HasNpFloat(np) THEN EdgeOut(TRUE, None, c.calls)
              ELSE EdgeOut(FALSE, AsType(c.out, "float64"), c.calls) :
            sg \in CannySigmas(s.sigma), pat \in CannyPatterns}

\* The external branch of load_edge: imgh, imgw = img.shape[0:2] raises for
\* a 1-D img, the read for an index outside the edge list; self.sigma goes
\* to the detector as it is.
ExternalLoaded(s, g, idx, vis, k, release) ==
    IF g.ndim < 2 \/ ~InRange(idx, Len(s.edge_data))
    THEN {EdgeOut(TRUE, None, <<>>)}
    ELSE LET loaded == resize(EdgeFile(s.edge_data[idx + 1]), g.h, g.w,
                                 s.is_center_crop, k)
         IN  IF s.nms = 1
             THEN {LET c == CannyCall(g, s.sigma, vis, pat, release)
                   IN  IF c.err THEN EdgeOut(TRUE, None, c.calls)
                       ELSE EdgeOut(FALSE, Times(loaded, c.out), c.calls) :
                     pat \in CannyPatterns}
             ELSE {EdgeOut(FALSE, loaded, <<>>)}

\* The outcomes of load_edge(img, index, mask).  Line 104 reads np.bool only
\* when training is false.
load_edge(s, g, idx, m, k, release, np) ==
    IF ~s.training /\ ~HasNpBool(np)
    THEN {EdgeOut(TRUE, None, <<>>)}
    ELSE IF s.edge = 1
    THEN CannyComputed(s, g, CannyMask(s, m), release, np)
    ELSE ExternalLoaded(s, g, idx, CannyMask(s, m), k, release)

\* ------------------------------------------------------------ load_item
\* gray2rgb: a buffer of rank below 3 becomes a 3-channel buffer.
gray2rgb(o) == [o EXCEPT !.ndim = 3]

\* The array imread returns: uint8, of the file's rank and size.
Shape(f) == [dtype |-> "uint8", ndim |-> f.ndim, h |-> f.h, w |-> f.w]

\* ori_img after the promotion of lines 69-70.
PromotedOriginal(raw) == IF raw.ndim < 3 THEN gray2rgb(raw) ELSE raw

\* img after lines 66-74: np.array of the buffer imread returned, replaced
\* by the resized ori_img only when size != 0.
WorkingImage(size, raw, ori) ==
    IF size # 0 THEN [dtype |-> ori.dtype, ndim |-> ori.ndim, h |-> size, w |-> size]
    ELSE raw

\* rgb2gray(img) of line 77, on an image kept by its shape: as rgb2gray of
\* line 164.
GrayImage(im, release) ==
    IF im.ndim = 3
    THEN GrayOut(FALSE, [dtype |-> "float64", ndim |-> 2, h |-> im.h, w |-> im.w])
    ELSE IF Gray2DUnchanged(release)
    THEN GrayOut(FALSE, im)
    ELSE IF im.ndim = 2 /\ im.w = 3
    THEN GrayOut(FALSE, [dtype |-> "float64", ndim |-> 1, h |-> im.h, w |-> 1])
    ELSE GrayOut(TRUE, NoImg)

\* img[:, ::-1, ...]
Flip(m) ==
    Like(Buffer(m.h, m.w,
                [r \in 0 .. m.h - 1, c \in 0 .. m.w - 1 |-> m.px[<<r, m.w - 1 - c>>]]),
         m)

\* An exception inside load_item: caught by __getitem__ on the first
\* attempt, propagated to the caller from the fallback.
Raise == pc' = IF phase = "try" THEN "except" ELSE "raised"

ResetLocals ==
    /\ file' = BadFile
    /\ ori_img' = NoImg
    /\ img' = NoImg
    /\ img_gray' = NoImg
    /\ mask' = None
    /\ mask_type' = 0
    /\ mask_index' = -1
    /\ edge' = None
    /\ canny_calls' = <<>>

\* __getitem__(index): enters load_item(index).  A new request may follow a
\* returned sample or a failure the caller has handled.
GetItem(i) ==
    /\ pc \in {"idle", "returned", "raised"}
    /\ index' = i
    /\ cur' = i
    /\ phase' = "try"
    /\ attempts' = <<i>>
    /\ item' = NoItem
    /\ pc' = "LoadRaw"
    /\ ResetLocals
    /\ UNCHANGED <<iter_vars, skimage, pillow, numpy, resampler, self>>

\* load_item lines 62-77: read, promote, resize, grayscale.  imread or
\* rgb2gray may raise.
LoadRaw ==
    /\ pc = "LoadRaw"
    /\ \E f \in (IF InRange(cur, len(self)) THEN ImageFiles ELSE {BadFile}) :
         /\ file' = f
         /\ IF f.ok
            THEN LET working == WorkingImage(self.input_size, Shape(f),
                                            PromotedOriginal(Shape(f)))
                     gray == GrayImage(working, skimage)
                 IN  /\ ori_img' = PromotedOriginal(Shape(f))
                     /\ img' = working
                     /\ img_gray' = gray.out
                     /\ IF gray.err THEN Raise ELSE pc' = "DeriveMask"
            ELSE /\ Raise
                 /\ UNCHANGED <<ori_img, img, img_gray>>
    /\ UNCHANGED <<iter_vars, skimage, pillow, numpy, resampler, self, phase, index, cur, attempts, mask, mask_type, mask_index,
                   edge, canny_calls, item>>

\* load_item line 80: mask = self.load_mask(img, index).
DeriveMask ==
    /\ pc = "DeriveMask"
    /\ \E out \in load_mask(self, img, cur, resampler, skimage) :
         /\ mask_type' = out.mask_type
         /\ mask_index' = out.mask_index
         /\ mask' = out.mask
         /\ IF out.err THEN Raise ELSE pc' = "NormalizeMask"
    /\ UNCHANGED <<iter_vars, skimage, pillow, numpy, resampler, self, phase, index, cur, attempts, file, ori_img, img, img_gray,
                   edge, canny_calls, item>>

\* load_item lines 83-85: the mask is resized to the image's shape.  The
\* resampler takes buffers of rank 2 and 3 and raises on a 1-D array.
NormalizeMask ==
    /\ pc = "NormalizeMask"
    /\ IF self.input_size # 0 /\ mask.ndim = 1
       THEN /\ Raise
            /\ UNCHANGED mask
       ELSE /\ mask' = IF self.input_size # 0
                       THEN resize(mask, img.h, img.w, self.is_center_crop, resampler)
                       ELSE mask
            /\ pc' = "DeriveEdge"
    /\ UNCHANGED <<iter_vars, skimage, pillow, numpy, resampler, self, phase, index, cur, attempts, file, ori_img, img, img_gray,
                   mask_type, mask_index, edge, canny_calls, item>>

\* load_item line 88: edge = self.load_edge(img_gray, index, mask).
DeriveEdge ==
    /\ pc = "DeriveEdge"
    /\ \E out \in load_edge(self, img_gray, cur, mask, resampler, skimage, numpy) :
         /\ edge' = out.edge
         /\ canny_calls' = out.calls
         /\ IF out.err THEN Raise ELSE pc' = "Augment"
    /\ UNCHANGED <<iter_vars, skimage, pillow, numpy, resampler, self, phase, index, cur, attempts, file, ori_img, img, img_gray,
                   mask, mask_type, mask_index, item>>

\* ------------------------------------------------------------ to_tensor
\* Image.fromarray: the arrays PIL has a mode for are 2-D uint8 (L), bool (1)
\* and float (F), and 3-D uint8 (RGB); a 1-D array of the first three is
\* read as a column by the releases that take 1-D arrays.  Any other array
\* makes it raise.
FromArrayOk(dtype, ndim, release) ==
    \/ ndim = 2 /\ dtype \in {"uint8", "bool", "float64"}
    \/ ndim = 3 /\ dtype = "uint8"
    \/ ndim = 1 /\ dtype \in {"uint8", "bool", "float64"} /\ release = "1-D"

\* F.to_tensor(img).float(), with tensor values counted in units of 1/255:
\* a byte image is divided by 255, so a byte v becomes v units (255 -> 1.0);
\* a float or bool image keeps its value v, which is 255 * v units.
TensorValue(dtype, v) == IF dtype = "uint8" THEN v ELSE 255 * v

\* to_tensor of a pixel buffer: a channel-first float tensor, (1, H, W) for
\* a 2-D buffer and (1, H, 1) for a 1-D one.
to_tensor(buf, release) ==
    [err |-> ~FromArrayOk(buf.dtype, buf.ndim, release),
     c |-> IF buf.ndim = 3 THEN 3 ELSE 1,
     h |-> buf.h, w |-> buf.w,
     px |-> [p \in DOMAIN buf.px |-> TensorValue(buf.dtype, buf.px[p])]]

\* to_tensor of an image kept by its shape: (3, H, W) for a three-channel
\* array, (1, H, W) for a 2-D one, (1, H, 1) for a 1-D one.
to_tensor_shape(im, release) ==
    [err |-> ~FromArrayOk(im.dtype, im.ndim, release),
     c |-> IF im.ndim = 3 THEN 3 ELSE 1,
     h |-> im.h, w |-> im.w]

\* x[:, ::-1, ...] indexes two axes and raises on a 1-D array.
FlipRaises(a) == a.ndim < 2

\* load_item lines 91-97 and the return of __getitem__: the flip, then the
\* four conversions of line 97, any of which may raise inside load_item.
Package ==
    /\ pc = "Augment"
    /\ \E flip \in (IF self.augment THEN BOOLEAN ELSE {FALSE}) :
         IF flip /\ (FlipRaises(img) \/ FlipRaises(img_gray) \/ FlipRaises(edge)
                     \/ FlipRaises(mask))
         THEN /\ Raise
              /\ UNCHANGED item
         ELSE LET img_t == to_tensor_shape(img, pillow)
                  gray_t == to_tensor_shape(img_gray, pillow)
                  edge_t == to_tensor(IF flip THEN Flip(edge) ELSE edge, pillow)
                  mask_t == to_tensor(IF flip THEN Flip(mask) ELSE mask, pillow)
              IN  IF img_t.err \/ gray_t.err \/ edge_t.err \/ mask_t.err
                  THEN /\ Raise
                       /\ UNCHANGED item
                  ELSE /\ item' = [shape |-> <<ori_img.h, ori_img.w, ori_img.ndim>>,
                                   img |-> img_t,
                                   img_gray |-> gray_t,
                                   edge |-> edge_t,
                                   mask |-> mask_t]
                       /\ pc' = "returned"
    /\ UNCHANGED <<iter_vars, skimage, pillow, numpy, resampler, self, phase, index, cur, attempts, file, ori_img, img, img_gray,
                   mask, mask_type, mask_index, edge, canny_calls>>

\* A fallback that retries the failing index.
FallbackRetry(i) == i

\* The index load_item is entered with after a failure (line 53).
FallbackIndex(i) == 0

\* __getitem__ lines 51-53: the failing path self.data[index] is printed,
\* which raises for an index outside the list, and load_item(0) is entered.
Except ==
    /\ pc = "except"
    /\ IF InRange(index, len(self))
       THEN /\ cur' = FallbackIndex(index)
            /\ phase' = "fallback"
            /\ attempts' = Append(attempts, FallbackIndex(index))
            /\ pc' = "LoadRaw"
       ELSE /\ pc' = "raised"
            /\ UNCHANGED <<cur, phase, attempts>>
    /\ ResetLocals
    /\ UNCHANGED <<iter_vars, skimage, pillow, numpy, resampler, self, index, item>>

\* The indices requested: the first two of the list and the first one past
\* its end.
Requested == {0, 1, MaxN}

Next ==
    \/ \E i \in Requested : GetItem(i)
    \/ LoadRaw
    \/ DeriveMask
    \/ NormalizeMask
    \/ DeriveEdge
    \/ Package
    \/ Except

Spec == Init /\ [][Next]_vars

\* ------------------------------------------------------ create_iterator
\* A loader that keeps the trailing partial batch.
keep_last == FALSE

\* DataLoader(dataset=self, batch_size=batch_size, drop_last=True)
drop_last == TRUE

Range(a, b) == [i \in 1 .. (b - a) |-> a + i - 1]

\* The next batch of the loader's sequential, unshuffled pass over a
\* dataset of n samples from position p: batch_size consecutive indices, a
\* shorter last batch only without drop_last, <<>> when the pass is over.
BatchAt(n, b, p) ==
    IF n - p >= b THEN Range(p, p + b)
    ELSE IF n - p > 0 /\ ~drop_last THEN Range(p, n)
    ELSE <<>>

IterInit ==
    /\ \E n \in 0 .. MaxIterN, b \in 1 .. MaxB :
         /\ self = Dataset(Config(<<[MODE |-> 1, MASK |-> 1, INPUT_SIZE |-> 0,
                                     masks |-> 0], DefaultEdge>>),
                           Flist(n), Flist(0), Flist(0), TRUE, TRUE)
         /\ batch_size = b
    /\ resampler = "nearest"
    /\ skimage = "0.15-0.18"
    /\ pillow = "1-D"
    /\ numpy = "pre-1.24"
    /\ Idle
    /\ it_pc = "created"
    /\ pos = 0
    /\ batch = <<>>
    /\ yields = 0

\* next() on the generator: it starts, or resumes after its yield.
Pull ==
    /\ it_pc \in {"created", "yielded"}
    /\ yields < MaxYields
    /\ it_pc' = IF it_pc = "created" THEN "while" ELSE "for"
    /\ UNCHANGED <<sample_vars, batch_size, pos, batch, yields>>

\* while True: a fresh loader, whose pass starts at index 0 (lines 194-199).
NewPass ==
    /\ it_pc = "while"
    /\ pos' = 0
    /\ it_pc' = "for"
    /\ UNCHANGED <<sample_vars, batch_size, batch, yields>>

\* for item in sample_loader: yield item (lines 201-202).  The loader
\* fetches every index of the batch through __getitem__, which may raise.
NextBatch ==
    /\ it_pc = "for"
    /\ LET idxs == BatchAt(len(self), batch_size, pos)
       IN  IF idxs = <<>>
           THEN /\ it_pc' = "while"
                /\ UNCHANGED <<pos, batch, yields>>
           ELSE \E fetched \in BOOLEAN :
                  IF fetched
                  THEN /\ batch' = idxs
                       /\ pos' = pos + Len(idxs)
                       /\ yields' = yields + 1
                       /\ it_pc' = "yielded"
                  ELSE /\ it_pc' = "raised"
                       /\ UNCHANGED <<pos, batch, yields>>
    /\ UNCHANGED <<sample_vars, batch_size>>

IterNext == Pull \/ NewPass \/ NextBatch

IterSpec == IterInit /\ [][IterNext]_vars

\* Once pulled, the generator's synchronous code keeps running.
FairIterSpec == IterSpec /\ WF_vars(NewPass) /\ WF_vars(NextBatch)

\* ------------------------------------------------------------- properties
Count(seq, x) == Cardinality({k \in DOMAIN seq : seq[k] = x})

Binary(m) == \A p \in DOMAIN m.px : m.px[p] \in {0, 255}

AllZero(m) == \A p \in DOMAIN m.px : m.px[p] = 0

MaskDerived == pc \in {"NormalizeMask", "DeriveEdge", "Augment", "returned"}

EdgeDerived == pc \in {"Augment", "returned"}

\* C1 (as claimed): for every valid index, 0 included, a failing load_item
\* is caught, the request returns, and the requested index is attempted
\* only once.
C1_SubstitutedNoRetry ==
    InRange(index, len(self)) =>
      /\ Count(attempts, index) <= 1
      /\ pc # "raised"

\* C1 (amended): for a valid index, a failing first attempt is followed by
\* exactly one attempt of index 0; an index other than 0 is never attempted
\* twice; a sample returned from the fallback is the one built for index 0;
\* and a failure reaches the caller only from the fallback attempt.
C1_FallbackOnce ==
    InRange(index, len(self)) =>
      /\ Len(attempts) <= 2
      /\ (phase = "try" => attempts = <<index>>)
      /\ (phase = "fallback" => attempts = <<index, 0>>)
      /\ (index # 0 => Count(attempts, index) <= 1)
      /\ (pc = "returned" /\ phase = "fallback" => cur = 0)
      /\ (pc = "raised" => phase = "fallback")

C1_Witness ==
    /\ pc = "returned"
    /\ phase = "fallback"
    /\ index = 1
    /\ attempts = <<1, 0>>

\* C2: in test mode (MODE = 2) the mask policy is 6 whatever MASK was
\* configured, and the mask file load_mask selects for index i is the one at
\* i mod len(mask_data), a function of the index alone.
C2_TestModeFixedMask ==
    self.mode = 2 =>
      /\ self.mask = 6
      /\ (mask_type # 0 => mask_type = 6)
      /\ (MaskDerived =>
            /\ Len(self.mask_data) > 0
            /\ mask_index = cur % Len(self.mask_data))

C2_Witness ==
    /\ self.mode = 2
    /\ pc = "NormalizeMask"
    /\ cur = 1
    /\ mask_index = 1

\* The visibility field that is true exactly where the mask is 0.
VisibleWhereZero(m) ==
    [dtype |-> "bool", ndim |-> m.ndim, h |-> m.h, w |-> m.w, px |-> [p \in Pixels(m.h, m.w) |-> m.px[p] = 0]]

\* The visibility field that is false exactly where the mask is 255.
VisibleUnless255(m) ==
    [dtype |-> "bool", ndim |-> m.ndim, h |-> m.h, w |-> m.w, px |-> [p \in Pixels(m.h, m.w) |-> m.px[p] # 255]]

\* C3 (as claimed): the run mode decides the detector's mask: none in Train
\* mode (MODE = 1), the field true exactly where the mask is 0 otherwise.
C3_MaskByRunMode ==
    \A k \in DOMAIN canny_calls :
      IF self.mode = 1
      THEN canny_calls[k].mask = None
      ELSE canny_calls[k].mask = VisibleWhereZero(mask)

\* C3 (amended): the training flag of the constructor decides it: no
\* detector invocation receives a mask when training is true, and every
\* invocation receives 1 - mask/255 as booleans, false exactly where the
\* mask is 255, when it is false.
C3_MaskByTrainingFlag ==
    \A k \in DOMAIN canny_calls :
      IF self.training
      THEN canny_calls[k].mask = None
      ELSE canny_calls[k].mask = VisibleUnless255(mask)

C3_Witness ==
    /\ canny_calls # <<>>
    /\ ~self.training
    /\ self.mode = 1
    /\ \E p \in DOMAIN mask.px : mask.px[p] \notin {0, 255}

\* The mask is 255 on columns lo .. hi-1 of every row and 0 elsewhere.
ColumnBlock(m, lo, hi) ==
    \A p \in DOMAIN m.px : m.px[p] = IF lo <= p[2] /\ p[2] < hi THEN 255 ELSE 0

\* C4 (as claimed): the half mask is the leftmost floor(W/2) columns or the
\* last floor(W/2) columns, ending at column W-1.
C4_HalfIsBorderBlock ==
    (mask_type = 2 /\ pc = "NormalizeMask") =>
      /\ mask.h = img.h /\ mask.w = img.w
      /\ \/ ColumnBlock(mask, 0, img.w \div 2)
         \/ ColumnBlock(mask, img.w - img.w \div 2, img.w)

\* C4 (amended): the half mask is 255 on floor(W/2) full-height columns,
\* either columns 0 .. floor(W/2)-1 or columns floor(W/2) .. 2*floor(W/2)-1,
\* and 0 elsewhere; the second block ends at column W-1 only for even W.
C4_HalfAtFloorOffset ==
    (mask_type = 2 /\ pc = "NormalizeMask") =>
      /\ mask.h = img.h /\ mask.w = img.w
      /\ \/ ColumnBlock(mask, 0, img.w \div 2)
         \/ ColumnBlock(mask, img.w \div 2, 2 * (img.w \div 2))

C4_Witness ==
    /\ mask_type = 2
    /\ pc = "NormalizeMask"
    /\ img.w = 3
    /\ mask.px[<<0, 1>>] = 255
    /\ mask.px[<<0, 2>>] = 0

\* C5: with sigma = -1 the detector is never invoked, and the edge map that
\* load_edge returns, and the edge tensor of the sample, are all zero,
\* under every edge policy.
C5_DisabledAlwaysZero ==
    self.sigma = -1 =>
      /\ canny_calls = <<>>
      /\ (EdgeDerived => AllZero(edge))
      /\ (pc = "returned" => AllZero(item.edge))

\* C6: under the external mask policies the mask handed to edge derivation
\* and to tensor conversion holds only 0 and 255, and thresholding it again
\* changes nothing, for every target size.
C6_MaskStaysBinary ==
    (mask_type \in {3, 6} /\ pc \in {"DeriveEdge", "Augment", "returned"}) =>
      /\ Binary(mask)
      /\ threshold(mask) = mask
      /\ (pc = "returned" => Binary(item.mask))   \* tensor values 0.0 or 1.0

\* C7: for a raw image of rank below 3 the image the later stages of
\* load_item work on is the promoted 3-channel image, for every target size.
C7_PromotedImageUsed ==
    (file.ok /\ file.ndim < 3 /\ MaskDerived) =>
      /\ img.ndim = 3
      /\ (pc = "returned" => item.img.c = 3)

\* C8: with an empty mask file list, a call of load_mask that applies the
\* external policy 3 or 6 (configured or re-rolled) raises and returns no
\* mask, and that construction yields no sample.
C8_EmptyMaskListFails ==
    (Len(self.mask_data) = 0 /\ mask_type \in {3, 6}) =>
      /\ mask = None
      /\ pc \in {"except", "raised"}
      /\ item = NoItem

C8_Witness ==
    /\ Len(self.mask_data) = 0
    /\ self.mask = 5
    /\ mask_type = 3
    /\ pc = "except"

\* C9: with N >= B >= 1 every batch yielded holds exactly B consecutive
\* ascending indices starting at a multiple of B and ending below
\* B*floor(N/B), and each batch starts right after the previous one, or at 0
\* when the previous one was the last full batch of its pass.
C9_FullBatchesInOrder ==
    /\ [](len(self) >= batch_size /\ it_pc = "yielded" =>
            /\ Len(batch) = batch_size
            /\ \A j \in 1 .. Len(batch) : batch[j] = batch[1] + j - 1
            /\ batch[1] % batch_size = 0
            /\ batch[Len(batch)] <= batch_size * (len(self) \div batch_size) - 1)
    /\ [][(len(self) >= batch_size /\ it_pc # "yielded" /\ it_pc' = "yielded") =>
            batch'[1] =
              IF batch = <<>>
                 \/ batch[Len(batch)] = batch_size * (len(self) \div batch_size) - 1
              THEN 0
              ELSE batch[Len(batch)] + 1]_vars

C9_Witness ==
    /\ it_pc = "yielded"
    /\ len(self) = 3
    /\ batch_size = 2
    /\ yields = 2
    /\ batch = <<0, 1>>

\* C10: every pull on the generator eventually ends in a yielded batch (or
\* in the failure of a fetch), whatever N >= 0 and B >= 1.
C10_EveryPullYields ==
    (it_pc \in {"while", "for"}) ~> (it_pc \in {"yielded", "raised"})

====
